---- MODULE Spec2Model ----
(***************************************************************************)
(* State-machine model of the HTTP execution core of the Dispatch Tickets  *)
(* SDK: HttpClient.request() with its retry loop, executeRequest() with    *)
(* the deadline timer and the caller's AbortSignal, handleResponse() with  *)
(* the status-to-error mapping, shouldRetry(), calculateDelay() and        *)
(* buildHeaders().  One action per stretch of code between two awaits.     *)
(***************************************************************************)
EXTENDS Integers, Sequences, FiniteSets, TLC

VARIABLES
    cfg,               \* HttpClient.config / retryConfig (fixed after construction)
    opts,              \* RequestOptions of the call
    pool,              \* what the transport (fetchFn) may answer
    pc,                \* position of the request() call
    attempt,           \* request(): let attempt
    iterations,        \* number of loop iterations begun (caps a runaway loop)
    lastError,         \* request(): let lastError (<<>> = undefined)
    headers,           \* request(): const headers (one object for all attempts)
    delay,             \* request(): const delay, in units of 1/DelayScale ms
    caught,            \* the value travelling to request()'s catch block
    response,          \* the Response a settled fetch produced (<<>> = none)
    rejection,         \* the value a settled fetch rejected with (<<>> = none)
    timerArmed,        \* executeRequest(): timeoutId is pending
    listenerAttached,  \* executeRequest(): abortHandler is on userSignal
    controllerAborted, \* executeRequest(): controller.signal.aborted
    abortCause,        \* who aborted the controller first: none/timeout/user
    signalAborted,     \* userSignal.aborted
    lastRequestId,     \* this._lastRequestId
    lastRateLimit,     \* this._lastRateLimit (<<>> = undefined)
    result,            \* value request() returned (<<>> = nothing returned)
    thrown,            \* error request() threw (<<>> = nothing thrown)
    nReturned,         \* how many times request() returned
    nThrown,           \* how many times request() threw
    fetchLog,          \* one entry per fetchFn call: attempt and headers sent
    trace,             \* hook invocations, in order, with what each did
    caughtLog,         \* the errors request()'s catch block received, in order
    sleeps,            \* completed sleep() calls
    hookThrows,        \* hook invocations that threw
    withRateLimit,     \* what requestWithRateLimit() returned (<<>> = not yet)
    pages,             \* the pages the server holds, in the order it serves them
    iter,              \* the iterator createPaginatedIterator() made, and its consumer
    lister             \* the generator TicketsResource.list() made, and its consumer

vars == <<cfg, opts, pool, pc, attempt, iterations, lastError, headers, delay,
          caught, response, rejection, timerArmed, listenerAttached,
          controllerAborted, abortCause, signalAborted, lastRequestId,
          lastRateLimit, result, thrown, nReturned, nThrown, fetchLog, trace,
          caughtLog, sleeps, hookThrows, withRateLimit, pages, iter, lister>>

(***************************************************************************)
(* Bounds of the model.                                                    *)
(***************************************************************************)
MaxRetriesBound == 2
MaxHookThrows == 1
RandomSteps == 2
MaxPages == 3
MaxPageLen == 2

(***************************************************************************)
(* JavaScript values.                                                      *)
(***************************************************************************)
\* undefined / null where a string is expected
Undefined == "undefined"
\* undefined where a number is expected
UndefinedNum == -1000001
\* NaN, the result of parseInt on a string with no leading digits
NaN == -1000000

\* Headers.get(name): <<>> is null, <<chars>> a value given as its characters
NullHeader == <<>>
HeaderValue(chars) == <<chars>>
\* JavaScript truthiness of a nullable string: null and "" are falsy
TruthyHeader(h) == h # <<>> /\ h[1] # <<>>
TruthyString(s) == s # Undefined /\ s # ""
\* truthiness of a number: undefined, 0 and NaN are falsy
TruthyNum(n) == n # UndefinedNum /\ n # 0 /\ n # NaN

IsDigit(c) == c \in {"0", "1", "2", "3", "4", "5", "6", "7", "8", "9"}
DigitValue(c) ==
    CASE c = "0" -> 0 [] c = "1" -> 1 [] c = "2" -> 2 [] c = "3" -> 3
      [] c = "4" -> 4 [] c = "5" -> 5 [] c = "6" -> 6 [] c = "7" -> 7
      [] c = "8" -> 8 [] c = "9" -> 9

RECURSIVE ParseDigits(_, _, _)
\* the longest digit prefix of chars from position i, accumulated in acc
ParseDigits(chars, i, acc) ==
    IF i > Len(chars) \/ ~IsDigit(chars[i]) THEN acc
    ELSE ParseDigits(chars, i + 1, acc * 10 + DigitValue(chars[i]))

RECURSIVE SkipSpaces(_, _)
SkipSpaces(chars, i) ==
    IF i <= Len(chars) /\ chars[i] = " " THEN SkipSpaces(chars, i + 1) ELSE i

\* parseInt(s, 10): leading blanks, an optional sign, then the longest digit
\* prefix; NaN when there is no digit
ParseInt(chars) ==
    LET s == SkipSpaces(chars, 1)
        signed == s <= Len(chars) /\ chars[s] \in {"-", "+"}
        d == IF signed THEN s + 1 ELSE s
    IN  IF d > Len(chars) \/ ~IsDigit(chars[d]) THEN NaN
        ELSE IF signed /\ chars[s] = "-" THEN 0 - ParseDigits(chars, d, 0)
        ELSE ParseDigits(chars, d, 0)

Min(a, b) == IF a <= b THEN a ELSE b

RECURSIVE Pow(_, _)
\* Math.pow(base, n) for a non-negative integer n
Pow(base, n) == IF n = 0 THEN 1 ELSE base * Pow(base, n - 1)

(***************************************************************************)
(* Error taxonomy (errors.ts).  An error is a record; kind is its class.   *)
(* seq is the serial number of the transport call whose outcome the error  *)
(* was built from (0: none): it stands for the text that differs between   *)
(* the answers of successive calls ('Error 1', 'Error 2', ...).            *)
(***************************************************************************)
SdkKinds == {"DispatchTicketsError", "AuthenticationError", "RateLimitError",
             "ValidationError", "NotFoundError", "ConflictError",
             "ServerError", "TimeoutError", "NetworkError"}

DispatchTicketsError(message, code, statusCode, requestId, seq) ==
    [kind |-> "DispatchTicketsError", code |-> code, statusCode |-> statusCode,
     message |-> message, retryAfter |-> UndefinedNum, requestId |-> requestId,
     rateLimit |-> <<>>, seq |-> seq]

AuthenticationError(message, requestId, seq) ==
    [DispatchTicketsError(message, "authentication_error", 401, requestId, seq)
        EXCEPT !.kind = "AuthenticationError"]

RateLimitError(message, retryAfter, requestId, rateLimitInfo, seq) ==
    [DispatchTicketsError(message, "rate_limit_error", 429, requestId, seq)
        EXCEPT !.kind = "RateLimitError", !.retryAfter = retryAfter,
               !.rateLimit = rateLimitInfo]

ValidationError(message, requestId, seq) ==
    [DispatchTicketsError(message, "validation_error", 400, requestId, seq)
        EXCEPT !.kind = "ValidationError"]

NotFoundError(message, requestId, seq) ==
    [DispatchTicketsError(message, "not_found", 404, requestId, seq)
        EXCEPT !.kind = "NotFoundError"]

ConflictError(message, requestId, seq) ==
    [DispatchTicketsError(message, "conflict", 409, requestId, seq)
        EXCEPT !.kind = "ConflictError"]

ServerError(message, statusCode, requestId, seq) ==
    [DispatchTicketsError(message, "server_error", statusCode, requestId, seq)
        EXCEPT !.kind = "ServerError"]

TimeoutError(message, seq) ==
    [DispatchTicketsError(message, "timeout_error", UndefinedNum, Undefined, seq)
        EXCEPT !.kind = "TimeoutError"]

NetworkError(message, seq) ==
    [DispatchTicketsError(message, "network_error", UndefinedNum, Undefined, seq)
        EXCEPT !.kind = "NetworkError"]

\* an error that is no DispatchTicketsError: Error, TypeError, SyntaxError
JsError(name, message, seq) ==
    [DispatchTicketsError(message, Undefined, UndefinedNum, Undefined, seq)
        EXCEPT !.kind = name]

\* error instanceof cls (the subclasses do not extend one another)
InstanceOf(error, cls) ==
    IF cls = "DispatchTicketsError" THEN error.kind \in SdkKinds
    ELSE error.kind = cls

(***************************************************************************)
(* Retry policy.                                                           *)
(***************************************************************************)
ShouldRetryAnyListedStatus(error) ==
    \/ error.statusCode \in cfg.retryableStatuses
    \/ InstanceOf(error, "RateLimitError")
    \/ InstanceOf(error, "NetworkError") /\ cfg.retryOnNetworkError
    \/ InstanceOf(error, "TimeoutError") /\ cfg.retryOnTimeout

ShouldRetryListedRateLimit(error) ==
    IF \/ InstanceOf(error, "AuthenticationError")
       \/ InstanceOf(error, "ValidationError")
       \/ InstanceOf(error, "NotFoundError")
       \/ InstanceOf(error, "ConflictError")
    THEN FALSE
    ELSE IF InstanceOf(error, "RateLimitError")
    THEN 429 \in cfg.retryableStatuses
    ELSE IF InstanceOf(error, "ServerError") /\ TruthyNum(error.statusCode)
    THEN error.statusCode \in cfg.retryableStatuses
    ELSE IF InstanceOf(error, "NetworkError") THEN cfg.retryOnNetworkError
    ELSE IF InstanceOf(error, "TimeoutError") THEN cfg.retryOnTimeout
    ELSE FALSE

ShouldRetry(error) ==
    IF \/ InstanceOf(error, "AuthenticationError")
       \/ InstanceOf(error, "ValidationError")
       \/ InstanceOf(error, "NotFoundError")
       \/ InstanceOf(error, "ConflictError")
    THEN FALSE
    ELSE IF InstanceOf(error, "RateLimitError") THEN TRUE
    ELSE IF InstanceOf(error, "ServerError") /\ TruthyNum(error.statusCode)
    THEN error.statusCode \in cfg.retryableStatuses
    ELSE IF InstanceOf(error, "NetworkError") THEN cfg.retryOnNetworkError
    ELSE IF InstanceOf(error, "TimeoutError") THEN cfg.retryOnTimeout
    ELSE FALSE

\* Delays are kept in units of 1/DelayScale ms so that the jitter term
\* delay * jitter * Math.random() stays an integer: jitter is
\* cfg.jitterPct / 100 and Math.random() is rnd / RandomSteps.
DelayScale == 100 * RandomSteps

\* jitter spread around the backoff delay instead of added to it
CalculateDelayCentredJitter(error, att, rnd) ==
    IF InstanceOf(error, "RateLimitError") /\ TruthyNum(error.retryAfter)
    THEN error.retryAfter * 1000 * DelayScale
    ELSE LET baseDelay == cfg.initialDelayMs
             d == Min(baseDelay * Pow(cfg.backoffMultiplier, att), cfg.maxDelayMs)
             jitter == d * cfg.jitterPct * (rnd - 1)
         IN  d * DelayScale + jitter

CalculateDelay(error, att, rnd) ==
    IF InstanceOf(error, "RateLimitError") /\ TruthyNum(error.retryAfter)
    THEN error.retryAfter * 1000 * DelayScale
    ELSE LET baseDelay == cfg.initialDelayMs
             d == Min(baseDelay * Pow(cfg.backoffMultiplier, att), cfg.maxDelayMs)
             jitter == d * cfg.jitterPct * rnd
         IN  d * DelayScale + jitter

(***************************************************************************)
(* Request headers.  A header record is a function from names to values;   *)
(* {...defaults, ...customHeaders} lets the custom entries win.            *)
(***************************************************************************)
NoHeaders == [n \in {} |-> ""]

BuildHeadersKeyFirst(customHeaders, idempotencyKey) ==
    LET defaults == ("Authorization" :> ("Bearer " \o cfg.apiKey))
                    @@ ("Content-Type" :> "application/json")
                    @@ ("Accept" :> "application/json")
        keyed == IF TruthyString(idempotencyKey)
                 THEN ("X-Idempotency-Key" :> idempotencyKey) @@ defaults
                 ELSE defaults
    IN  customHeaders @@ keyed

BuildHeadersDefaultsLast(customHeaders, idempotencyKey) ==
    LET defaults == ("Authorization" :> ("Bearer " \o cfg.apiKey))
                    @@ ("Content-Type" :> "application/json")
                    @@ ("Accept" :> "application/json")
        merged == defaults @@ customHeaders
    IN  IF TruthyString(idempotencyKey)
        THEN ("X-Idempotency-Key" :> idempotencyKey) @@ merged
        ELSE merged

BuildHeaders(customHeaders, idempotencyKey) ==
    LET defaults == ("Authorization" :> ("Bearer " \o cfg.apiKey))
                    @@ ("Content-Type" :> "application/json")
                    @@ ("Accept" :> "application/json")
        merged == customHeaders @@ defaults
    IN  IF TruthyString(idempotencyKey)
        THEN ("X-Idempotency-Key" :> idempotencyKey) @@ merged
        ELSE merged

(***************************************************************************)
(* Responses.  A Response is a record: status, statusText, the headers the *)
(* client reads, the body (what response.json() would do with it) and seq, *)
(* the serial number of the transport call that produced it.               *)
(*   body.shape: "none" and "bad" make json() throw; "null" decodes to     *)
(*   null; "object" decodes to an object with the given message and error. *)
(***************************************************************************)
JsonContentTypes == {"application/json", "application/json; charset=utf-8"}

\* response.ok
ResponseOk(r) == r.status >= 200 /\ r.status < 300

\* contentType?.includes('application/json')
IsJson(r) == r.contentType # Undefined /\ r.contentType \in JsonContentTypes

\* response.json() throws a SyntaxError
JsonThrows(r) == r.body.shape \in {"none", "bad"}

\* the value response.json() resolves with
Decoded(r) ==
    [shape |-> r.body.shape, message |-> r.body.message,
     error |-> r.body.error, seq |-> r.seq]

\* the value undefined, as request() returns it
JsUndefined ==
    [shape |-> "undefined", message |-> Undefined, error |-> Undefined, seq |-> 0]

\* let errorData: ApiErrorResponse = {}
EmptyPayload ==
    [shape |-> "object", message |-> Undefined, error |-> Undefined, seq |-> 0]

ExtractRateLimitInfo(r) ==
    IF TruthyHeader(r.rlLimit) /\ TruthyHeader(r.rlRemaining) /\ TruthyHeader(r.rlReset)
    THEN <<ParseInt(r.rlLimit[1]), ParseInt(r.rlRemaining[1]), ParseInt(r.rlReset[1])>>
    ELSE <<>>

\* keeps the stored request ID when the response carries none
ExtractRequestIdIfPresent(r) ==
    IF r.requestId = Undefined THEN lastRequestId ELSE r.requestId

\* response.headers.get('x-request-id') ?? undefined
ExtractRequestId(r) == r.requestId

\* handleResponse() from "Handle error responses" on: the error it throws
\* for a response that is not ok
ErrorFromResponse(r) ==
    LET requestId == ExtractRequestId(r)
        rateLimitInfo == ExtractRateLimitInfo(r)
        errorData == IF IsJson(r) /\ ~JsonThrows(r) THEN Decoded(r) ELSE EmptyPayload
        message == IF TruthyString(errorData.message) THEN errorData.message
                   ELSE IF TruthyString(errorData.error) THEN errorData.error
                   ELSE r.statusText
    IN  IF errorData.shape = "null"
        THEN JsError("TypeError", "Cannot read properties of null", r.seq)
        ELSE CASE r.status = 401 -> AuthenticationError(message, requestId, r.seq)
               [] r.status \in {400, 422} -> ValidationError(message, requestId, r.seq)
               [] r.status = 404 -> NotFoundError(message, requestId, r.seq)
               [] r.status = 409 -> ConflictError(message, requestId, r.seq)
               [] r.status = 429 ->
                    RateLimitError(message,
                        IF TruthyHeader(r.retryAfter) THEN ParseInt(r.retryAfter[1])
                        ELSE UndefinedNum,
                        requestId, rateLimitInfo, r.seq)
               [] OTHER ->
                    IF r.status >= 500
                    THEN ServerError(message, r.status, requestId, r.seq)
                    ELSE DispatchTicketsError(message, "api_error", r.status,
                                              requestId, r.seq)

\* executeRequest(): the catch block, for a value rj the try block threw
TransportFailureBySignalOnly(rj) ==
    IF rj.isError
    THEN IF rj.name = "AbortError"
         THEN IF opts.hasSignal
              THEN NetworkError("Request aborted by user", rj.seq)
              ELSE TimeoutError("Request timed out after " \o ToString(cfg.timeout) \o "ms",
                                rj.seq)
         ELSE NetworkError(rj.message, rj.seq)
    ELSE NetworkError("Unknown network error", rj.seq)

ClassifyTransportFailure(rj) ==
    IF rj.isError
    THEN IF rj.name = "AbortError"
         THEN IF opts.hasSignal /\ signalAborted
              THEN NetworkError("Request aborted by user", rj.seq)
              ELSE TimeoutError("Request timed out after " \o ToString(cfg.timeout) \o "ms",
                                rj.seq)
         ELSE NetworkError(rj.message, rj.seq)
    ELSE NetworkError("Unknown network error", rj.seq)

\* throw new Error('Request aborted'), thrown inside executeRequest()'s try
PreAbortThrow ==
    [name |-> "Error", isError |-> TRUE, message |-> "Request aborted", seq |-> 0]

(***************************************************************************)
(* The request() call as a state machine.                                  *)
(***************************************************************************)
envVars == <<cfg, opts, pool>>
pageVars == <<pages, iter, lister>>
wrapVars == <<withRateLimit>>
\* everything a request() call reads or writes
vars_call == <<cfg, opts, pool, pc, attempt, iterations, lastError, headers, delay,
               caught, response, rejection, timerArmed, listenerAttached,
               controllerAborted, abortCause, signalAborted, lastRequestId,
               lastRateLimit, result, thrown, nReturned, nThrown, fetchLog, trace,
               caughtLog, sleeps, hookThrows, withRateLimit>>
execVars == <<timerArmed, listenerAttached, controllerAborted, abortCause>>
sessionVars == <<lastRequestId, lastRateLimit>>
outVars == <<result, thrown, nReturned, nThrown>>

Done == pc \in {"returned", "thrown"}

\* request() ends by throwing err
Throw(err) ==
    /\ pc' = "thrown"
    /\ thrown' = <<err>>
    /\ nThrown' = nThrown + 1
    /\ UNCHANGED <<result, nReturned>>

\* request() ends by returning value
Return(value) ==
    /\ pc' = "returned"
    /\ result' = <<value>>
    /\ nReturned' = nReturned + 1
    /\ UNCHANGED <<thrown, nThrown>>

\* What an awaited hook may do: complete (<<>>) or throw an error (<<e>>).
\* A hook that is not configured is not called.
HookOutcomes(hook) ==
    IF hook \in cfg.hooks /\ hookThrows < MaxHookThrows
    THEN {<<>>} \cup {<<e>> : e \in pool.hookErrors}
    ELSE {<<>>}

\* The RequestContext handed to onRequest holds the very headers object that
\* every attempt sends, and the hook may write to it ("Can modify the
\* request"): the entries it may set (NoHeaders: it sets none).
HookEdits ==
    IF "onRequest" \in cfg.hooks THEN {NoHeaders} \cup pool.hookEdits
    ELSE {NoHeaders}

\* the bookkeeping of one hook call with outcome ho and header edit ed
CallHook(hook, ho, ed) ==
    /\ trace' = IF hook \in cfg.hooks
                THEN Append(trace, [hook |-> hook, attempt |-> attempt,
                                    threw |-> ho, edit |-> ed])
                ELSE trace
    /\ hookThrows' = IF ho = <<>> THEN hookThrows ELSE hookThrows + 1

\* request(), lines 240-244: build the URL and the headers, set the locals
Request ==
    /\ pc = "idle"
    /\ headers' = BuildHeaders(opts.headers, opts.idempotencyKey)
    /\ lastError' = <<>>
    /\ attempt' = 0
    /\ pc' = "loop"
    /\ UNCHANGED <<envVars, pageVars, wrapVars, execVars, sessionVars, outVars, iterations, delay,
                   caught, response, rejection, signalAborted, fetchLog, trace,
                   sleeps, hookThrows, caughtLog>>

\* the loop test
LoopCondition == attempt <= cfg.maxRetries

\* request(), lines 246-259: the while test, the RequestContext and the
\* onRequest hook; after the loop, line 299
BeginAttempt ==
    /\ pc = "loop"
    /\ iterations < MaxRetriesBound + 2
    /\ iterations' = iterations + 1
    /\ IF LoopCondition
       THEN \E ho \in HookOutcomes("onRequest"), ed \in HookEdits :
              /\ CallHook("onRequest", ho, ed)
              /\ headers' = ed @@ headers
              /\ IF ho = <<>>
                 THEN pc' = "exec" /\ caught' = caught
                 ELSE pc' = "catch" /\ caught' = ho
              /\ UNCHANGED outVars
       ELSE /\ Throw(IF lastError # <<>> THEN lastError[1]
                     ELSE NetworkError("Request failed after retries", 0))
            /\ UNCHANGED <<caught, headers, trace, hookThrows>>
    /\ UNCHANGED <<envVars, pageVars, wrapVars, execVars, sessionVars, attempt, lastError, delay,
                   response, rejection, signalAborted, fetchLog, caughtLog,
                   sleeps>>

\* executeRequest(), lines 405-430: arm the deadline timer, listen to the
\* caller's signal, then either find the signal aborted already or call fetchFn
\* executeRequest(), line 420: userSignal?.aborted
NeverAbortedBeforeFetch(hasSignal, aborted) == FALSE

AbortedBeforeFetch(hasSignal, aborted) == hasSignal /\ aborted

\* executeRequest(), lines 446-447: clearTimeout, removeEventListener
LeftArmed(armed) == armed

Cleared(armed) == FALSE

ExecuteRequestStart ==
    /\ pc = "exec"
    /\ IF AbortedBeforeFetch(opts.hasSignal, signalAborted)
       THEN \* thrown and caught inside executeRequest; finally disarms
            /\ caught' = <<ClassifyTransportFailure(PreAbortThrow)>>
            /\ pc' = "catch"
            /\ UNCHANGED <<execVars, fetchLog>>
       ELSE /\ timerArmed' = TRUE
            /\ listenerAttached' = opts.hasSignal
            /\ controllerAborted' = FALSE
            /\ abortCause' = "none"
            /\ fetchLog' = Append(fetchLog, [attempt |-> attempt, headers |-> headers])
            /\ pc' = "inflight"
            /\ caught' = caught
    /\ response' = <<>>
    /\ rejection' = <<>>
    /\ UNCHANGED <<envVars, pageVars, wrapVars, sessionVars, outVars, attempt, iterations, lastError,
                   headers, delay, signalAborted, trace, sleeps, hookThrows, caughtLog>>

\* the deadline timer fires: controller.abort()
TimerFire ==
    /\ timerArmed
    /\ timerArmed' = FALSE
    /\ controllerAborted' = TRUE
    /\ abortCause' = IF controllerAborted THEN abortCause ELSE "timeout"
    /\ UNCHANGED <<envVars, pageVars, wrapVars, sessionVars, outVars, pc, attempt, iterations,
                   lastError, headers, delay, caught, response, rejection,
                   listenerAttached, signalAborted, fetchLog, trace, sleeps,
                   hookThrows, caughtLog>>

\* the caller aborts its signal while the call is under way; abortHandler
\* runs if it is attached
UserAbort ==
    /\ opts.hasSignal
    /\ ~Done
    /\ ~signalAborted
    /\ signalAborted' = TRUE
    /\ controllerAborted' = (controllerAborted \/ listenerAttached)
    /\ abortCause' = IF listenerAttached /\ ~controllerAborted THEN "user"
                     ELSE abortCause
    /\ UNCHANGED <<envVars, pageVars, wrapVars, sessionVars, outVars, pc, attempt, iterations,
                   lastError, headers, delay, caught, response, rejection,
                   timerArmed, listenerAttached, fetchLog, trace, sleeps,
                   hookThrows, caughtLog>>

\* the transport answers with a response
FetchResolve ==
    /\ pc = "inflight"
    /\ \E r \in pool.responses :
         response' = <<[r EXCEPT !.seq = Len(fetchLog)]>>
    /\ pc' = "settled"
    /\ UNCHANGED <<envVars, pageVars, wrapVars, execVars, sessionVars, outVars, attempt, iterations,
                   lastError, headers, delay, caught, rejection, signalAborted,
                   fetchLog, trace, sleeps, hookThrows, caughtLog>>

\* the transport rejects (or throws)
FetchReject ==
    /\ pc = "inflight"
    /\ \E rj \in pool.rejections :
         rejection' = <<[rj EXCEPT !.seq = Len(fetchLog)]>>
    /\ pc' = "settled"
    /\ UNCHANGED <<envVars, pageVars, wrapVars, execVars, sessionVars, outVars, attempt, iterations,
                   lastError, headers, delay, caught, response, signalAborted,
                   fetchLog, trace, sleeps, hookThrows, caughtLog>>

\* executeRequest(), lines 432-448: return the response, or classify what
\* was thrown; finally clear the timer and remove the listener.  The
\* controller is a local of executeRequest() and is gone with it.
ExecuteRequestSettle ==
    /\ pc = "settled"
    /\ IF response # <<>>
       THEN pc' = "handle" /\ caught' = caught
       ELSE pc' = "catch" /\ caught' = <<ClassifyTransportFailure(rejection[1])>>
    /\ timerArmed' = Cleared(timerArmed)
    /\ listenerAttached' = Cleared(listenerAttached)
    /\ controllerAborted' = FALSE
    /\ abortCause' = "none"
    /\ UNCHANGED <<envVars, pageVars, wrapVars, sessionVars, outVars, attempt, iterations, lastError,
                   headers, delay, response, rejection, signalAborted, fetchLog,
                   trace, sleeps, hookThrows, caughtLog>>

\* handleResponse(), line 500: a 2xx response whose body is not read
ReturnsNoValueOnly204(r) == r.status = 204

ReturnsNoValue(r) == r.status = 204 \/ ~IsJson(r)

\* handleResponse(), lines 472-497: read the headers, store the session
\* fields, call onResponse for an ok response
HandleResponseHead ==
    /\ pc = "handle"
    /\ LET r == response[1] IN
         /\ lastRequestId' = ExtractRequestId(r)
         /\ lastRateLimit' = ExtractRateLimitInfo(r)
         /\ IF ResponseOk(r)
            THEN \E ho \in HookOutcomes("onResponse") :
                   /\ CallHook("onResponse", ho, NoHeaders)
                   /\ IF ho = <<>>
                      THEN pc' = "body" /\ caught' = caught
                      ELSE pc' = "catch" /\ caught' = ho
            ELSE /\ pc' = "body"
                 /\ UNCHANGED <<caught, trace, hookThrows>>
    /\ UNCHANGED <<envVars, pageVars, wrapVars, execVars, outVars, attempt, iterations, lastError,
                   headers, delay, response, rejection, signalAborted, fetchLog,
                   sleeps, caughtLog>>

\* handleResponse(), lines 499-512: whether response.json() is called
ReadsBody(r) == IF ResponseOk(r) THEN ~ReturnsNoValue(r) ELSE IsJson(r)

\* handleResponse(), lines 499-548: return the value of an ok response, or
\* throw the error of any other; response.json() marks the body as used
HandleResponseBody ==
    /\ pc = "body"
    /\ response' = <<[response[1] EXCEPT !.bodyUsed = ReadsBody(response[1])]>>
    /\ LET r == response[1] IN
         IF ResponseOk(r)
         THEN IF ReturnsNoValue(r)
              THEN Return(JsUndefined) /\ caught' = caught
              ELSE IF JsonThrows(r)
              THEN /\ caught' = <<JsError("SyntaxError", "Unexpected token", r.seq)>>
                   /\ pc' = "catch"
                   /\ UNCHANGED outVars
              ELSE Return(Decoded(r)) /\ caught' = caught
         ELSE /\ caught' = <<ErrorFromResponse(r)>>
              /\ pc' = "catch"
              /\ UNCHANGED outVars
    /\ UNCHANGED <<envVars, pageVars, wrapVars, execVars, sessionVars, attempt, iterations, lastError,
                   headers, delay, rejection, signalAborted, fetchLog,
                   trace, sleeps, hookThrows, caughtLog>>

\* request(), line 274: lastError = error
KeepFirstError(prev, error) == IF prev # <<>> THEN prev ELSE <<error>>

RecordError(prev, error) == <<error>>

\* request(), lines 273-279: the catch block up to the onError hook; a
\* throwing onError leaves request() with the hook's error
Catch ==
    /\ pc = "catch"
    /\ lastError' = RecordError(lastError, caught[1])
    /\ caughtLog' = Append(caughtLog, [attempt |-> attempt, error |-> caught[1]])
    /\ \E ho \in HookOutcomes("onError") :
         /\ CallHook("onError", ho, NoHeaders)
         /\ IF ho = <<>>
            THEN pc' = "decide" /\ UNCHANGED outVars
            ELSE Throw(ho[1])
    /\ UNCHANGED <<envVars, pageVars, wrapVars, execVars, sessionVars, attempt, iterations, headers,
                   delay, caught, response, rejection, signalAborted, fetchLog,
                   sleeps>>

\* request(), line 282: the retry test
RetryDecision == attempt < cfg.maxRetries /\ ShouldRetry(lastError[1])

\* request(), lines 281-295: retry (delay, onRetry hook) or throw lastError
Decide ==
    /\ pc = "decide"
    /\ IF RetryDecision
       THEN \E rnd \in 0..(RandomSteps - 1) :
              /\ delay' = CalculateDelay(lastError[1], attempt, rnd)
              /\ \E ho \in HookOutcomes("onRetry") :
                   /\ CallHook("onRetry", ho, NoHeaders)
                   /\ IF ho = <<>>
                      THEN pc' = "sleep" /\ UNCHANGED outVars
                      ELSE Throw(ho[1])
       ELSE /\ Throw(lastError[1])
            /\ UNCHANGED <<delay, trace, hookThrows>>
    /\ UNCHANGED <<envVars, pageVars, wrapVars, execVars, sessionVars, attempt, iterations, lastError,
                   headers, caught, response, rejection, signalAborted, fetchLog,
                   sleeps, caughtLog>>

\* request(), line 291: attempt++
SameAttempt(a) == a

NextAttempt(a) == a + 1

\* request(), lines 290-292: the sleep is over, the next iteration begins
Sleep ==
    /\ pc = "sleep"
    /\ sleeps' = sleeps + 1
    /\ attempt' = NextAttempt(attempt)
    /\ delay' = 0
    /\ pc' = "loop"
    /\ UNCHANGED <<envVars, pageVars, wrapVars, execVars, sessionVars, outVars, iterations, lastError,
                   headers, caught, response, rejection, signalAborted, fetchLog,
                   trace, hookThrows, caughtLog>>

(***************************************************************************)
(* Configurations, requests and transports the model is run with.          *)
(***************************************************************************)
DefaultRetryableStatuses == {429, 500, 502, 503, 504}
AllHooks == {"onRequest", "onResponse", "onError", "onRetry"}

Configs ==
    [apiKey : {"test-api-key"}, timeout : {5000},
     maxRetries : 0..MaxRetriesBound,
     retryableStatuses : {DefaultRetryableStatuses, {401, 408, 500}},
     retryOnNetworkError : BOOLEAN, retryOnTimeout : BOOLEAN,
     initialDelayMs : {1000}, maxDelayMs : {30000}, backoffMultiplier : {2},
     jitterPct : {25}, hooks : {AllHooks, {}}]

BasicOptions ==
    [headers : {NoHeaders}, idempotencyKey : {Undefined}, hasSignal : BOOLEAN]

Body(shape, message, error) == [shape |-> shape, message |-> message, error |-> error]

MkResponse(status, statusText, contentType, body, retryAfter) ==
    [status |-> status, statusText |-> statusText, contentType |-> contentType,
     body |-> body, requestId |-> Undefined, rlLimit |-> NullHeader,
     rlRemaining |-> NullHeader, rlReset |-> NullHeader,
     retryAfter |-> retryAfter, bodyUsed |-> FALSE, seq |-> 0]

JsonObject == Body("object", Undefined, Undefined)
JsonMessage == Body("object", "boom", Undefined)
NoBody == Body("none", Undefined, Undefined)

BasicResponses ==
    {MkResponse(200, "OK", "application/json", JsonObject, NullHeader),
     MkResponse(200, "OK", "application/json", Body("bad", Undefined, Undefined), NullHeader),
     MkResponse(204, "No Content", Undefined, NoBody, NullHeader),
     MkResponse(201, "Created", "text/plain", Body("bad", Undefined, Undefined), NullHeader),
     MkResponse(429, "Too Many Requests", "application/json", JsonMessage,
                HeaderValue(<<"2">>)),
     MkResponse(503, "Service Unavailable", "text/html", NoBody, NullHeader)}
    \cup {MkResponse(s, "Error", "application/json", JsonMessage, NullHeader) :
            s \in {400, 401, 404, 409, 422, 418, 500}}

Rejection(name, isError, message) ==
    [name |-> name, isError |-> isError, message |-> message, seq |-> 0]

BasicRejections ==
    {Rejection("TypeError", TRUE, "fetch failed"),
     Rejection("AbortError", TRUE, "This operation was aborted"),
     Rejection("", FALSE, "")}

BasicHookErrors ==
    {JsError("Error", "hook failed", 0), NetworkError("hook failed", 0)}

BasicPool ==
    [responses |-> BasicResponses, rejections |-> BasicRejections,
     hookErrors |-> BasicHookErrors, hookEdits |-> {}]

\* no request() call has begun
CallFresh ==
    /\ pc = "idle"
    /\ attempt = 0
    /\ iterations = 0
    /\ lastError = <<>>
    /\ headers = NoHeaders
    /\ delay = 0
    /\ caught = <<>>
    /\ response = <<>>
    /\ rejection = <<>>
    /\ timerArmed = FALSE
    /\ listenerAttached = FALSE
    /\ controllerAborted = FALSE
    /\ abortCause = "none"
    /\ signalAborted = FALSE
    /\ result = <<>>
    /\ thrown = <<>>
    /\ nReturned = 0
    /\ nThrown = 0
    /\ fetchLog = <<>>
    /\ trace = <<>>
    /\ caughtLog = <<>>
    /\ sleeps = 0
    /\ hookThrows = 0

\* no iteration over pages has begun
IdleIterator ==
    [cursor |-> Undefined, hasMore |-> TRUE, currentPage |-> <<>>,
     currentIndex |-> 0, state |-> "idle", yielded |-> <<>>, fetches |-> <<>>]

IdlePages == pages = <<>> /\ iter = IdleIterator /\ lister = IdleIterator

\* requestWithRateLimit() has not returned
IdleWrap == withRateLimit = <<>>

InitWith(configs, options, pools) ==
    /\ cfg \in configs
    /\ opts \in options
    /\ pool \in pools
    /\ CallFresh
    /\ lastRequestId = Undefined
    /\ lastRateLimit = <<>>
    /\ IdlePages
    /\ IdleWrap

Init == InitWith(Configs, BasicOptions, {BasicPool})

Next ==
    \/ Request
    \/ BeginAttempt
    \/ ExecuteRequestStart
    \/ TimerFire
    \/ UserAbort
    \/ FetchResolve
    \/ FetchReject
    \/ ExecuteRequestSettle
    \/ HandleResponseHead
    \/ HandleResponseBody
    \/ Catch
    \/ Decide
    \/ Sleep

Spec == Init /\ [][Next]_vars

\* the steps of the call itself: every transport call, hook and sleep
\* eventually completes
CallStep ==
    \/ Request
    \/ BeginAttempt
    \/ ExecuteRequestStart
    \/ FetchResolve
    \/ FetchReject
    \/ ExecuteRequestSettle
    \/ HandleResponseHead
    \/ HandleResponseBody
    \/ Catch
    \/ Decide
    \/ Sleep

\* a smaller family of configurations for the check of termination
LiveConfigs ==
    [apiKey : {"test-api-key"}, timeout : {5000},
     maxRetries : 0..MaxRetriesBound,
     retryableStatuses : {DefaultRetryableStatuses},
     retryOnNetworkError : BOOLEAN, retryOnTimeout : {TRUE},
     initialDelayMs : {1000}, maxDelayMs : {30000}, backoffMultiplier : {2},
     jitterPct : {25}, hooks : {AllHooks}]

FairSpec ==
    /\ InitWith(LiveConfigs, BasicOptions, {BasicPool})
    /\ [][Next]_vars
    /\ WF_vars(CallStep)

(***************************************************************************)
(* Requests with custom headers and idempotency keys, run against a small  *)
(* transport, with an onRequest hook that may write to the headers.        *)
(***************************************************************************)
HeaderConfigs ==
    [apiKey : {"test-api-key"}, timeout : {5000},
     maxRetries : 0..MaxRetriesBound,
     retryableStatuses : {DefaultRetryableStatuses},
     retryOnNetworkError : {TRUE}, retryOnTimeout : {TRUE},
     initialDelayMs : {1000}, maxDelayMs : {30000}, backoffMultiplier : {2},
     jitterPct : {25}, hooks : {AllHooks, {}}]

HeaderOptions ==
    [headers : {NoHeaders,
                ("Authorization" :> "Basic dXNlcg=="),
                ("Accept" :> "text/csv") @@ ("Content-Type" :> "text/plain"),
                ("X-Idempotency-Key" :> "custom-key") @@ ("X-Trace" :> "t1")},
     idempotencyKey : {Undefined, "", "unique-key-123"},
     hasSignal : BOOLEAN]

HeaderPool ==
    [responses |-> {MkResponse(200, "OK", "application/json", JsonObject, NullHeader),
                    MkResponse(500, "Error", "application/json", JsonMessage, NullHeader)},
     rejections |-> {Rejection("TypeError", TRUE, "fetch failed")},
     hookErrors |-> {NetworkError("hook failed", 0)},
     hookEdits |-> {("X-Idempotency-Key" :> "hook-key"),
                    ("Authorization" :> "Bearer hook-token")}]

SpecHeaders == InitWith(HeaderConfigs, HeaderOptions, {HeaderPool}) /\ [][Next]_vars

(***************************************************************************)
(* Properties.                                                             *)
(***************************************************************************)
\* no hook has thrown during the call
NoHookThrew == \A i \in DOMAIN trace : trace[i].threw = <<>>

\* no onRequest hook has written to the headers
NoHookEdit == \A i \in DOMAIN trace : trace[i].edit = NoHeaders

\* every error the catch block has received so far came from the outcome of
\* a transport call (a response that is not ok, or a rejection)
AllFailuresFromTransport == \A i \in DOMAIN caughtLog : caughtLog[i].error.seq > 0

\* C1: every request() call ends, and ends with exactly one outcome: it
\* returns one value or throws one error, never both and never neither.
\* Until it ends there is no outcome, the loop never begins more than
\* maxRetries + 1 iterations, and an outcome, once there, never changes.
C1_ExactlyOneOutcome ==
    /\ <>Done
    /\ [](nReturned + nThrown = IF Done THEN 1 ELSE 0)
    /\ []((pc = "returned") <=> (result # <<>> /\ thrown = <<>> /\ nReturned = 1))
    /\ []((pc = "thrown") <=> (thrown # <<>> /\ result = <<>> /\ nThrown = 1))
    /\ [](pc = "loop" => iterations <= cfg.maxRetries)
    /\ [][Done => UNCHANGED <<pc, result, thrown, nReturned, nThrown>>]_vars

\* a call that used all its retries and threw
C1_Witness ==
    /\ pc = "thrown"
    /\ cfg.maxRetries = MaxRetriesBound
    /\ attempt = cfg.maxRetries
    /\ sleeps = cfg.maxRetries
    /\ nThrown = 1 /\ nReturned = 0

\* C2: at every moment the call has invoked the transport at most
\* maxRetries + 1 times, at most once per attempt, and once the call has
\* returned a value it invokes the transport no more.
C2_AttemptsBounded ==
    /\ [](Len(fetchLog) <= cfg.maxRetries + 1)
    /\ [](\A i, j \in DOMAIN fetchLog : i < j => fetchLog[i].attempt < fetchLog[j].attempt)
    /\ [](\A i \in DOMAIN fetchLog : fetchLog[i].attempt <= attempt)
    /\ [][result # <<>> => fetchLog' = fetchLog]_vars

\* the transport has been invoked maxRetries + 1 times, maxRetries >= 1
C2_Witness ==
    /\ cfg.maxRetries = MaxRetriesBound
    /\ Len(fetchLog) = cfg.maxRetries + 1
    /\ pc = "inflight"

\* C3: when every attempt of a call ended in a retry-eligible failure of the
\* transport call (and no hook threw), the call has invoked the transport
\* exactly maxRetries + 1 times when it throws, and it throws the error built
\* from the last of these calls.
C3_ExhaustionThrowsLast ==
    (/\ pc = "thrown"
     /\ NoHookThrew
     /\ AllFailuresFromTransport
     /\ \A i \in DOMAIN caughtLog :
          LET e == caughtLog[i].error IN
            \/ e.kind = "RateLimitError"
            \/ e.kind = "ServerError" /\ e.statusCode \in cfg.retryableStatuses
            \/ e.kind = "NetworkError" /\ cfg.retryOnNetworkError
            \/ e.kind = "TimeoutError" /\ cfg.retryOnTimeout)
    => /\ Len(fetchLog) = cfg.maxRetries + 1
       /\ Len(caughtLog) = cfg.maxRetries + 1
       /\ thrown[1] = caughtLog[Len(caughtLog)].error
       /\ thrown[1].seq = cfg.maxRetries + 1

\* maxRetries = 2 and a transport answering 500 three times
C3_Witness ==
    /\ pc = "thrown"
    /\ cfg.maxRetries = MaxRetriesBound
    /\ Len(fetchLog) = cfg.maxRetries + 1
    /\ NoHookThrew
    /\ \A i \in DOMAIN caughtLog :
         caughtLog[i].error.kind = "ServerError" /\ caughtLog[i].error.statusCode = 500
    /\ thrown[1].kind = "ServerError" /\ thrown[1].seq = cfg.maxRetries + 1

ClientErrorKinds ==
    {"AuthenticationError", "ValidationError", "NotFoundError", "ConflictError"}

C5_RetryThenSuccess ==
    (/\ response # <<>>
     /\ response[1].seq = Len(fetchLog)
     /\ response[1].status >= 200 /\ response[1].status < 300
     /\ \/ response[1].status = 204
        \/ response[1].contentType \notin JsonContentTypes
        \/ response[1].body.shape \notin {"none", "bad"}
     /\ NoHookThrew
     /\ AllFailuresFromTransport)
    => /\ pc \in {"settled", "handle", "body", "returned"}
       /\ Len(fetchLog) = attempt + 1
       /\ Len(caughtLog) = attempt
       /\ pc = "returned"
          => result[1] =
               IF \/ response[1].status = 204
                  \/ response[1].contentType \notin JsonContentTypes
               THEN JsUndefined
               ELSE [shape |-> response[1].body.shape,
                     message |-> response[1].body.message,
                     error |-> response[1].body.error,
                     seq |-> response[1].seq]

\* the transport answered 500, then 200: the call returned the body of the
\* second answer after two invocations
C5_Witness ==
    /\ pc = "returned"
    /\ Len(fetchLog) = 2
    /\ Len(caughtLog) = 1
    /\ caughtLog[1].error.kind = "ServerError"
    /\ caughtLog[1].error.statusCode = 500
    /\ response[1].status = 200
    /\ result[1].shape = "object"
    /\ result[1].seq = 2

\* C6: with every hook configured, the hooks fire per attempt k in the order
\* onRequest(k), then exactly one of onResponse(k) and onError(k), and
\* onRetry(k) only right after onError(k) and right before onRequest(k+1).
C6_HookOrder ==
    cfg.hooks = AllHooks =>
      \A i \in DOMAIN trace :
        LET e == trace[i] IN
          CASE e.hook = "onRequest" ->
                 IF i = 1 THEN e.attempt = 0
                 ELSE /\ trace[i - 1].hook = "onRetry"
                      /\ trace[i - 1].attempt = e.attempt - 1
            [] e.hook \in {"onResponse", "onError"} ->
                 /\ i > 1
                 /\ trace[i - 1].hook = "onRequest"
                 /\ trace[i - 1].attempt = e.attempt
            [] e.hook = "onRetry" ->
                 /\ i > 1
                 /\ trace[i - 1].hook = "onError"
                 /\ trace[i - 1].attempt = e.attempt

\* C7: when onRequest throws on attempt k the call ends on that attempt with
\* exactly that error: no hook is called after it, no sleep and no further
\* attempt follow.
C7_OnRequestThrowPropagates ==
    \A i \in DOMAIN trace :
      (trace[i].hook = "onRequest" /\ trace[i].threw # <<>>)
      => /\ i = Len(trace)
         /\ attempt = trace[i].attempt
         /\ pc # "sleep"
         /\ Done => thrown = trace[i].threw

\* the headers of every transport call made so far carry the idempotency
\* key the caller gave
KeySentOnEveryAttempt ==
    \A i \in DOMAIN fetchLog :
      /\ "X-Idempotency-Key" \in DOMAIN fetchLog[i].headers
      /\ fetchLog[i].headers["X-Idempotency-Key"] = opts.idempotencyKey

\* C8 as stated: whenever an idempotency key K is supplied, every transport
\* call of the call, the first attempt and every retry, carries
\* X-Idempotency-Key = K, whatever the custom headers are.
C8_KeyOnEveryAttemptAnyKey ==
    (opts.idempotencyKey # Undefined /\ NoHookEdit) => KeySentOnEveryAttempt

\* C8: whenever a non-empty idempotency key K is supplied (and no onRequest
\* hook rewrites the headers), every transport call of the call, the first
\* attempt and every retry, carries X-Idempotency-Key = K, whatever the
\* custom headers are.
C8_KeyOnEveryAttempt ==
    (opts.idempotencyKey \notin {Undefined, ""} /\ NoHookEdit)
    => KeySentOnEveryAttempt

\* a retry has been sent for a call whose custom headers name
\* X-Idempotency-Key themselves
C8_Witness ==
    /\ opts.idempotencyKey = "unique-key-123"
    /\ "X-Idempotency-Key" \in DOMAIN opts.headers
    /\ opts.headers["X-Idempotency-Key"] # opts.idempotencyKey
    /\ NoHookEdit
    /\ Len(fetchLog) >= 2
    /\ fetchLog[2].headers["X-Idempotency-Key"] = "unique-key-123"

DefaultHeaderNames == {"Authorization", "Content-Type", "Accept"}

DefaultHeaderValue(n) ==
    IF n = "Authorization" THEN "Bearer " \o cfg.apiKey ELSE "application/json"

\* C9 as stated: every transport call carries Authorization = 'Bearer ' +
\* apiKey, Content-Type = application/json and Accept = application/json,
\* also for calls that supply custom headers.
C9_DefaultHeadersAlways ==
    NoHookEdit =>
      \A i \in DOMAIN fetchLog : \A n \in DefaultHeaderNames :
        /\ n \in DOMAIN fetchLog[i].headers
        /\ fetchLog[i].headers[n] = DefaultHeaderValue(n)

\* C9: every transport call carries the three headers Authorization,
\* Content-Type and Accept; each has its default value ('Bearer ' + apiKey,
\* application/json, application/json) unless the call's custom headers name
\* it, and then it has the custom value (no onRequest hook rewriting the
\* headers).
C9_DefaultHeadersUnlessOverridden ==
    NoHookEdit =>
      \A i \in DOMAIN fetchLog : \A n \in DefaultHeaderNames :
        /\ n \in DOMAIN fetchLog[i].headers
        /\ fetchLog[i].headers[n] =
             IF n \in DOMAIN opts.headers THEN opts.headers[n]
             ELSE DefaultHeaderValue(n)

\* a call with a custom Authorization header has been sent, retried, with
\* the custom value in place of the default and the other defaults intact
C9_Witness ==
    /\ "Authorization" \in DOMAIN opts.headers
    /\ NoHookEdit
    /\ Len(fetchLog) >= 2
    /\ fetchLog[2].headers["Authorization"] = "Basic dXNlcg=="
    /\ fetchLog[2].headers["Accept"] = "application/json"

\* C10: when executeRequest() classifies an AbortError rejection of the
\* transport, the failure is a NetworkError with message 'Request aborted by
\* user' if the caller's signal is aborted at that moment, and a
\* TimeoutError if there is no caller signal or it is not aborted; never the
\* other way round.
C10_AbortClassification ==
    [][(/\ pc = "settled"
        /\ pc' = "catch"
        /\ rejection # <<>>
        /\ rejection[1].isError
        /\ rejection[1].name = "AbortError")
       => /\ caught'[1].seq = rejection[1].seq
          /\ IF opts.hasSignal /\ signalAborted
             THEN /\ caught'[1].kind = "NetworkError"
                  /\ caught'[1].message = "Request aborted by user"
             ELSE /\ caught'[1].kind = "TimeoutError"
                  /\ caught'[1].message # "Request aborted by user"
          /\ abortCause = "user" => caught'[1].kind = "NetworkError"
          /\ (abortCause = "timeout" /\ ~signalAborted)
             => caught'[1].kind = "TimeoutError"]_vars

\* the caller aborted while the attempt was in flight and the attempt has
\* failed with the abort message
C10_Witness ==
    /\ pc = "catch"
    /\ opts.hasSignal /\ signalAborted
    /\ rejection # <<>> /\ rejection[1].name = "AbortError"
    /\ caught[1].kind = "NetworkError"
    /\ caught[1].message = "Request aborted by user"
    /\ caught[1].seq = Len(fetchLog)

\* C11: an attempt that starts with the caller's signal already aborted
\* fails, without a transport call, with the same error as an abort in
\* flight: a NetworkError with message 'Request aborted by user'.
C11_PreAbortedSameAsInFlight ==
    [][(/\ pc = "exec"
        /\ opts.hasSignal /\ signalAborted
        /\ pc' = "catch")
       => /\ fetchLog' = fetchLog
          /\ caught'[1].kind = "NetworkError"
          /\ caught'[1].message = "Request aborted by user"]_vars

\* C12: once an attempt has failed because the caller's signal was aborted
\* (NetworkError 'Request aborted by user'), the call ends with that error
\* on that attempt: no onRetry, no sleep, no further attempt, whatever the
\* retry configuration.
C12_CancellationNotRetried ==
    \A i \in DOMAIN caughtLog :
      LET c == caughtLog[i] IN
        (/\ c.error.kind = "NetworkError"
         /\ c.error.message = "Request aborted by user")
        => /\ i = Len(caughtLog)
           /\ attempt = c.attempt
           /\ pc \in {"decide", "thrown"}
           /\ sleeps = c.attempt
           /\ \A j \in DOMAIN trace :
                ~(trace[j].hook = "onRetry" /\ trace[j].attempt = c.attempt)
           /\ pc = "thrown"
              => \/ thrown[1] = c.error
                 \/ /\ trace # <<>>
                    /\ trace[Len(trace)].hook = "onError"
                    /\ trace[Len(trace)].threw = thrown

\* C13: when an in-flight attempt is aborted and the transport rejects with
\* AbortError, the error kind follows the source that fired first:
\* TimeoutError if the deadline timer aborted the controller, NetworkError
\* 'Request aborted by user' if the caller's signal did, whatever happens
\* between the abort and the classification.
C13_FirstAbortSourceDecides ==
    [][(/\ pc = "settled"
        /\ pc' = "catch"
        /\ rejection # <<>>
        /\ rejection[1].isError
        /\ rejection[1].name = "AbortError")
       => /\ abortCause = "timeout" => caught'[1].kind = "TimeoutError"
          /\ abortCause = "user"
             => /\ caught'[1].kind = "NetworkError"
                /\ caught'[1].message = "Request aborted by user"]_vars

(***************************************************************************)
(* Error responses of many statuses and body forms, rate-limit answers     *)
(* with retry-after headers, and backoff settings whose cap is reached.    *)
(***************************************************************************)
PolicyConfigs ==
    [apiKey : {"test-api-key"}, timeout : {5000},
     maxRetries : 0..MaxRetriesBound,
     retryableStatuses : {DefaultRetryableStatuses, {408, 425, 500}},
     retryOnNetworkError : {FALSE}, retryOnTimeout : {FALSE},
     initialDelayMs : {1000}, maxDelayMs : {1500}, backoffMultiplier : {2},
     jitterPct : {0, 25}, hooks : {{}}]

PolicyOptions ==
    [headers : {NoHeaders}, idempotencyKey : {Undefined}, hasSignal : {TRUE}]

\* the forms an error body takes
ErrorBodies ==
    {JsonMessage,
     Body("object", Undefined, "error text"),
     Body("object", "", "error text"),
     JsonObject,
     Body("bad", Undefined, Undefined),
     Body("null", Undefined, Undefined)}

PolicyResponses ==
    {MkResponse(200, "OK", "application/json", JsonObject, NullHeader),
     MkResponse(404, "Not Found", "text/html", NoBody, NullHeader),
     MkResponse(404, "Not Found", Undefined, NoBody, NullHeader),
     MkResponse(500, "Internal Server Error", "application/json",
                Body("null", Undefined, Undefined), NullHeader),
     MkResponse(500, "Internal Server Error", "application/json", JsonMessage,
                NullHeader),
     MkResponse(429, "Too Many Requests", "application/json", JsonMessage, NullHeader),
     MkResponse(429, "Too Many Requests", "application/json", JsonMessage,
                HeaderValue(<<"0">>)),
     MkResponse(429, "Too Many Requests", "application/json", JsonMessage,
                HeaderValue(<<"6", "0">>))}
    \cup {MkResponse(404, "Not Found", "application/json", b, NullHeader) :
            b \in ErrorBodies}
    \cup {MkResponse(s, "Error", "application/json", JsonMessage, NullHeader) :
            s \in {302, 400, 401, 403, 408, 409, 418, 422, 425, 503, 599}}

PolicyPool ==
    [responses |-> PolicyResponses,
     rejections |-> {Rejection("TypeError", TRUE, "fetch failed")},
     hookErrors |-> {}, hookEdits |-> {}]

SpecPolicy == InitWith(PolicyConfigs, PolicyOptions, {PolicyPool}) /\ [][Next]_vars

\* C14: the error handleResponse() produces for a response that is not 2xx
\* has the kind its status names: 401 AuthenticationError, 400 and 422
\* ValidationError, 404 NotFoundError, 409 ConflictError, 429
\* RateLimitError, 500 and above ServerError, and every other status the
\* generic DispatchTicketsError with code 'api_error'.
C14_StatusMapping ==
    [][(/\ pc = "body"
        /\ pc' = "catch"
        /\ ~(response[1].status >= 200 /\ response[1].status < 300))
       => LET s == response[1].status
              e == caught'[1]
          IN  /\ e.kind =
                   CASE s = 401 -> "AuthenticationError"
                     [] s \in {400, 422} -> "ValidationError"
                     [] s = 404 -> "NotFoundError"
                     [] s = 409 -> "ConflictError"
                     [] s = 429 -> "RateLimitError"
                     [] s >= 500 -> "ServerError"
                     [] OTHER -> "DispatchTicketsError"
              /\ e.kind = "DispatchTicketsError" => e.code = "api_error"]_vars

\* C15: when no hook throws, every error request() throws is an instance of
\* DispatchTicketsError: one of the SDK error kinds, whatever the transport
\* did.
C15_OnlySdkErrorsEscape ==
    (pc = "thrown" /\ NoHookThrew)
    => thrown[1].kind \in {"DispatchTicketsError", "AuthenticationError",
                           "ValidationError", "NotFoundError", "ConflictError",
                           "RateLimitError", "ServerError", "TimeoutError",
                           "NetworkError"}

\* C16: for every response that is not 2xx, whatever its body, the error
\* handleResponse() throws is an SDK error carrying the response's serial,
\* and its message is the payload's message if it has a non-empty one, else
\* the payload's error if it has a non-empty one, else the status text; a
\* body that is absent, not JSON, undecodable or not an object has neither.
C16_ClassificationNeverFails ==
    [][(/\ pc = "body"
        /\ pc' = "catch"
        /\ ~(response[1].status >= 200 /\ response[1].status < 300))
       => LET r == response[1]
              isObject == /\ r.contentType \in JsonContentTypes
                          /\ r.body.shape = "object"
              e == caught'[1]
          IN  /\ e.kind \in {"DispatchTicketsError", "AuthenticationError",
                             "ValidationError", "NotFoundError", "ConflictError",
                             "RateLimitError", "ServerError"}
              /\ e.seq = r.seq
              /\ e.message =
                   IF isObject /\ r.body.message \notin {Undefined, ""}
                   THEN r.body.message
                   ELSE IF isObject /\ r.body.error \notin {Undefined, ""}
                   THEN r.body.error
                   ELSE r.statusText]_vars

C18_ListedStatusRetried ==
    [][(/\ pc = "decide"
        /\ pc' # pc
        /\ response # <<>>
        /\ lastError[1].seq = response[1].seq
        /\ lastError[1].seq = Len(fetchLog)
        /\ lastError[1].statusCode = response[1].status
        /\ response[1].status \in cfg.retryableStatuses
        /\ attempt < cfg.maxRetries
        /\ cfg.hooks = {})
       => pc' = "sleep"]_vars

\* C19: when a retry follows a 429 response whose retry-after header parsed
\* to an integer r >= 0, the delay of that retry is exactly r * 1000 ms,
\* whatever the backoff settings and the attempt index; retry-after: 60
\* gives 60000 ms.
C19_RetryAfterIsTheDelay ==
    (/\ pc = "sleep"
     /\ lastError[1].kind = "RateLimitError"
     /\ response # <<>>
     /\ response[1].seq = lastError[1].seq
     /\ response[1].retryAfter # NullHeader)
    => /\ lastError[1].retryAfter >= 0
          => delay = lastError[1].retryAfter * 1000 * DelayScale
       /\ response[1].retryAfter = HeaderValue(<<"6", "0">>)
          => delay = 60000 * DelayScale
       /\ response[1].retryAfter = HeaderValue(<<"0">>) => delay = 0

\* C20: the delay of a retry that is not server-directed (the error is not a
\* RateLimitError carrying a retry-after of r >= 0), at attempt index k, lies
\* between base and base * (1 + jitter), where
\* base = min(initialDelayMs * backoffMultiplier^k, maxDelayMs); with
\* jitter = 0 it is exactly base.
C20_JitterIsAdditive ==
    (/\ pc = "sleep"
     /\ ~(lastError[1].kind = "RateLimitError" /\ lastError[1].retryAfter >= 0))
    => LET base == Min(cfg.initialDelayMs * Pow(cfg.backoffMultiplier, attempt),
                       cfg.maxDelayMs)
       IN  /\ base * DelayScale <= delay
           /\ delay * 100 <= base * DelayScale * (100 + cfg.jitterPct)
           /\ cfg.jitterPct = 0 => delay = base * DelayScale

\* a second retry whose backoff reached maxDelayMs and got jitter on top
C20_Witness ==
    /\ pc = "sleep"
    /\ attempt = 1
    /\ lastError[1].kind = "ServerError"
    /\ cfg.jitterPct = 25
    /\ cfg.initialDelayMs * cfg.backoffMultiplier > cfg.maxDelayMs
    /\ delay > cfg.maxDelayMs * DelayScale

\* C21: every delay slept between two attempts, a jittered backoff delay or
\* a server-directed retry-after delay alike, is at most maxDelayMs.
C21_DelayAtMostMax ==
    pc = "sleep" => delay <= cfg.maxDelayMs * DelayScale

(***************************************************************************)
(* A call on a client that earlier calls have used: the session fields     *)
(* hold what the last response of those calls left.  Responses carry       *)
(* x-request-id and x-ratelimit-* headers, or lack some of them.           *)
(***************************************************************************)
SessionConfigs ==
    [apiKey : {"test-api-key"}, timeout : {5000},
     maxRetries : 0..MaxRetriesBound,
     retryableStatuses : {DefaultRetryableStatuses},
     retryOnNetworkError : {TRUE}, retryOnTimeout : {FALSE},
     initialDelayMs : {1000}, maxDelayMs : {30000}, backoffMultiplier : {2},
     jitterPct : {0}, hooks : {{}, {"onResponse"}}]

SessionOptions ==
    [headers : {NoHeaders}, idempotencyKey : {Undefined}, hasSignal : {TRUE}]

\* a response with an x-request-id and the three x-ratelimit-* headers
WithSessionHeaders(r, requestId, limit, remaining, reset) ==
    [r EXCEPT !.requestId = requestId, !.rlLimit = limit,
              !.rlRemaining = remaining, !.rlReset = reset]

SessionResponses ==
    {MkResponse(200, "OK", "application/json", JsonObject, NullHeader),
     WithSessionHeaders(MkResponse(200, "OK", "application/json", JsonObject, NullHeader),
                        "req_abc123", HeaderValue(<<"1", "0", "0">>),
                        HeaderValue(<<"9", "9">>), HeaderValue(<<"1", "7", "0", "4">>)),
     WithSessionHeaders(MkResponse(200, "OK", "application/json", JsonObject, NullHeader),
                        "req_nan", HeaderValue(<<"a", "b", "c">>),
                        HeaderValue(<<"9", "9">>), HeaderValue(<<"1", "7", "0", "4">>)),
     WithSessionHeaders(MkResponse(500, "Error", "application/json", JsonMessage,
                                   NullHeader),
                        "req_500", HeaderValue(<<"1", "0", "0">>), NullHeader,
                        HeaderValue(<<"1", "7", "0", "4">>)),
     WithSessionHeaders(MkResponse(429, "Too Many Requests", "application/json",
                                   JsonMessage, HeaderValue(<<"1">>)),
                        "req_429", HeaderValue(<<"1", "0", "0">>),
                        HeaderValue(<<"0">>), HeaderValue(<<"1", "7", "0", "4">>)),
     WithSessionHeaders(MkResponse(404, "Not Found", "application/json", JsonMessage,
                                   NullHeader),
                        Undefined, HeaderValue(<<"1", "0", "0">>),
                        HeaderValue(<<>>), HeaderValue(<<"1", "7", "0", "4">>))}

SessionPool ==
    [responses |-> SessionResponses,
     rejections |-> {Rejection("TypeError", TRUE, "fetch failed"),
                     Rejection("AbortError", TRUE, "This operation was aborted")},
     hookErrors |-> {JsError("Error", "hook failed", 0)}, hookEdits |-> {}]

\* what earlier calls may have left in _lastRequestId and _lastRateLimit
EarlierRequestIds == {Undefined, "req_earlier"}
EarlierRateLimits == {<<>>, <<100, 42, 1600>>}

InitSession ==
    /\ cfg \in SessionConfigs
    /\ opts \in SessionOptions
    /\ pool = SessionPool
    /\ CallFresh
    /\ lastRequestId \in EarlierRequestIds
    /\ lastRateLimit \in EarlierRateLimits
    /\ IdlePages
    /\ IdleWrap

SpecSession == InitSession /\ [][Next]_vars

\* the three x-ratelimit-* headers of r are all there and not empty
HasRateLimitHeaders(r) ==
    /\ r.rlLimit # NullHeader /\ r.rlLimit[1] # <<>>
    /\ r.rlRemaining # NullHeader /\ r.rlRemaining[1] # <<>>
    /\ r.rlReset # NullHeader /\ r.rlReset[1] # <<>>

\* C22: lastRequestId and lastRateLimit change only when a response is
\* handled, and then to the request ID and RateLimitInfo of that response
\* (absent when it lacks the headers), be it 2xx or not, of a first attempt
\* or a retry; so they always hold the values of the response received
\* last, and an attempt that ends without a response leaves them as they
\* were.
C22_SessionFollowsLastResponse ==
    /\ [][IF pc = "handle" /\ pc' # pc
          THEN /\ lastRequestId' = response[1].requestId
               /\ lastRateLimit' =
                    IF HasRateLimitHeaders(response[1])
                    THEN <<ParseInt(response[1].rlLimit[1]),
                           ParseInt(response[1].rlRemaining[1]),
                           ParseInt(response[1].rlReset[1])>>
                    ELSE <<>>
          ELSE UNCHANGED <<lastRequestId, lastRateLimit>>]_vars
    /\ []((response # <<>> /\ pc \notin {"settled", "handle"})
          => /\ lastRequestId = response[1].requestId
             /\ (lastRateLimit # <<>>) <=> HasRateLimitHeaders(response[1]))
    /\ []((response = <<>> /\ fetchLog = <<>>)
          => /\ lastRequestId \in EarlierRequestIds
             /\ lastRateLimit \in EarlierRateLimits)

\* a 500 answer with a request ID was retried, the retry ended without a
\* response, and the fields still hold what the 500 answer carried
C22_Witness ==
    /\ pc = "thrown"
    /\ Len(fetchLog) = 2
    /\ response = <<>>
    /\ thrown[1].kind = "NetworkError"
    /\ caughtLog[1].error.kind = "ServerError"
    /\ lastRequestId = "req_500"
    /\ lastRateLimit = <<>>

\* C23: the RateLimitInfo a response leaves in lastRateLimit is present
\* exactly when its three x-ratelimit-* headers exist and each parses as an
\* integer, and when present its limit, remaining and reset are integers.
C23_RateLimitInfoAllOrNothing ==
    (response # <<>> /\ pc \notin {"settled", "handle"})
    => LET r == response[1]
           parses(h) == h # NullHeader /\ ParseInt(h[1]) # NaN
       IN  /\ (lastRateLimit # <<>>)
              <=> (parses(r.rlLimit) /\ parses(r.rlRemaining) /\ parses(r.rlReset))
           /\ lastRateLimit # <<>>
              => \A i \in 1..3 : lastRateLimit[i] # NaN

\* C24: when handleResponse() comes to the body of a 2xx response, it
\* returns no value and leaves the body unread if the status is 204 or the
\* content type is not JSON; otherwise it reads the body and, when the body
\* decodes, returns the decoded value.
C24_NoValueWithoutReadingBody ==
    [][(/\ pc = "body"
        /\ pc' # pc
        /\ response[1].status >= 200 /\ response[1].status < 300)
       => LET r == response[1] IN
            /\ ~r.bodyUsed
            /\ IF r.status = 204 \/ r.contentType \notin JsonContentTypes
               THEN /\ pc' = "returned"
                    /\ result' = <<JsUndefined>>
                    /\ ~response'[1].bodyUsed
               ELSE /\ response'[1].bodyUsed
                    /\ r.body.shape \notin {"none", "bad"}
                       => /\ pc' = "returned"
                          /\ result'[1].shape = r.body.shape
                          /\ result'[1].message = r.body.message
                          /\ result'[1].seq = r.seq]_vars

\* a 201 answer of type text/plain, whose body is no JSON, was returned as
\* no value with its body unread
C24_Witness ==
    /\ pc = "returned"
    /\ response[1].status = 201
    /\ response[1].contentType = "text/plain"
    /\ response[1].body.shape = "bad"
    /\ ~response[1].bodyUsed
    /\ result = <<JsUndefined>>

(***************************************************************************)
(* Pagination: createPaginatedIterator() and TicketsResource.list() over   *)
(* the pages a server holds.  A page is its number of items, its hasMore   *)
(* flag and whether it carries a cursor; item j of page i is <<i, j>>.     *)
(* The k-th page fetch is answered with page k, and fails when the server  *)
(* holds no such page.                                                     *)
(***************************************************************************)
PageKinds == [len : 0..MaxPageLen, hasMore : BOOLEAN, hasCursor : BOOLEAN]

\* response.data of page i
PageData(i) == [j \in 1..pages[i].len |-> <<i, j>>]

\* response.pagination.cursor of page i
PageCursor(i) == IF pages[i].hasCursor THEN "cursor" \o ToString(i) ELSE Undefined

\* cursor = response.pagination.cursor, with the cursor held before
KeepCursor(held, returned) == held

NextCursor(held, returned) == returned

\* one next() call of the iterator's consumer
IterNext ==
    /\ iter.state = "open"
    /\ IF iter.currentIndex < Len(iter.currentPage)
       THEN iter' = [iter EXCEPT
                       !.yielded = Append(@, iter.currentPage[iter.currentIndex + 1]),
                       !.currentIndex = @ + 1]
       ELSE IF ~iter.hasMore
       THEN iter' = [iter EXCEPT !.state = "done"]
       ELSE LET n == Len(iter.fetches) + 1
                called == Append(iter.fetches, iter.cursor)
            IN  IF n > Len(pages)
                THEN iter' = [iter EXCEPT !.fetches = called, !.state = "failed"]
                ELSE LET data == PageData(n)
                         got == [iter EXCEPT
                                   !.fetches = called,
                                   !.currentPage = data,
                                   !.currentIndex = 0,
                                   !.cursor = NextCursor(iter.cursor, PageCursor(n)),
                                   !.hasMore = pages[n].hasMore]
                     IN  IF Len(data) = 0
                         THEN iter' = [got EXCEPT !.state = "done"]
                         ELSE iter' = [got EXCEPT !.yielded = Append(@, data[1]),
                                                  !.currentIndex = 1]
    /\ UNCHANGED <<pages, lister, vars_call>>

\* the consumer leaves its loop after an item: it calls next() no more
IterBreak ==
    /\ iter.state = "open"
    /\ iter.yielded # <<>>
    /\ iter' = [iter EXCEPT !.state = "broken"]
    /\ UNCHANGED <<pages, lister, vars_call>>

\* list(): the while test and the page fetch.  The two iterations do not
\* share state; the model runs list() once the iterator is at rest.
ListLoop ==
    /\ iter.state \in {"done", "failed", "broken"}
    /\ lister.state = "loop"
    /\ IF ~lister.hasMore
       THEN lister' = [lister EXCEPT !.state = "done"]
       ELSE LET n == Len(lister.fetches) + 1
                called == Append(lister.fetches, lister.cursor)
            IN  IF n > Len(pages)
                THEN lister' = [lister EXCEPT !.fetches = called, !.state = "failed"]
                ELSE lister' = [lister EXCEPT !.fetches = called,
                                              !.currentPage = PageData(n),
                                              !.currentIndex = 0,
                                              !.state = "inpage"]
    /\ UNCHANGED <<pages, iter, vars_call>>

\* list(): the for loop over page.data, then the cursor and hasMore update
ListYield ==
    /\ lister.state = "inpage"
    /\ IF lister.currentIndex < Len(lister.currentPage)
       THEN lister' = [lister EXCEPT
                         !.yielded = Append(@, lister.currentPage[lister.currentIndex + 1]),
                         !.currentIndex = @ + 1]
       ELSE lister' = [lister EXCEPT
                         !.cursor = PageCursor(Len(lister.fetches)),
                         !.hasMore = pages[Len(lister.fetches)].hasMore,
                         !.state = "loop"]
    /\ UNCHANGED <<pages, iter, vars_call>>

\* a client that is not in a request() call
PagesClient ==
    [apiKey |-> "test-api-key", timeout |-> 5000, maxRetries |-> 0,
     retryableStatuses |-> DefaultRetryableStatuses,
     retryOnNetworkError |-> TRUE, retryOnTimeout |-> TRUE,
     initialDelayMs |-> 1000, maxDelayMs |-> 30000, backoffMultiplier |-> 2,
     jitterPct |-> 25, hooks |-> {}]

InitPages ==
    /\ cfg = PagesClient
    /\ opts = [headers |-> NoHeaders, idempotencyKey |-> Undefined, hasSignal |-> FALSE]
    /\ pool = BasicPool
    /\ CallFresh
    /\ lastRequestId = Undefined
    /\ lastRateLimit = <<>>
    /\ IdleWrap
    /\ pages \in UNION {[1..n -> PageKinds] : n \in 1..MaxPages}
    /\ iter = [IdleIterator EXCEPT !.state = "open"]
    /\ lister = [IdleIterator EXCEPT !.state = "loop"]

NextPages ==
    \/ IterNext
    \/ IterBreak
    \/ ListLoop
    \/ ListYield

SpecPages == InitPages /\ [][NextPages]_vars

\* the items of pages 1..n in order
RECURSIVE ItemsOfPages(_)
ItemsOfPages(n) == IF n = 0 THEN <<>> ELSE ItemsOfPages(n - 1) \o PageData(n)

\* a page after which iteration goes on: not empty and reporting hasMore
GoesOn(i) == pages[i].len > 0 /\ pages[i].hasMore

\* the pages the iterator has received
Received(it) == IF it.state = "failed" THEN Len(it.fetches) - 1 ELSE Len(it.fetches)

\* C25: createPaginatedIterator yields the items of page 1, page 2, ... in
\* order; the first fetchPage call receives no cursor and each later one the
\* cursor of the page before; a page is fetched only when every item of the
\* pages before has been yielded and each of them was non-empty with
\* hasMore = true; iteration ends exactly after the first page that is empty or
\* has hasMore = false, with all its items yielded; after an early break
\* nothing more is fetched or yielded.
C25_IteratorWalksPagesInOrder ==
    [][ LET n == Received(iter')
        IN  /\ \A k \in 1..Len(iter'.fetches) :
                  iter'.fetches[k] = IF k = 1 THEN Undefined ELSE PageCursor(k - 1)
            /\ \A k \in 1..(Len(iter'.fetches) - 1) : GoesOn(k)
            /\ iter'.yielded =
                 IF n = 0 THEN <<>>
                 ELSE ItemsOfPages(n - 1) \o SubSeq(PageData(n), 1, iter'.currentIndex)
            /\ Len(iter'.fetches) > Len(iter.fetches) =>
                 iter.yielded = ItemsOfPages(Len(iter.fetches))
            /\ iter'.state = "done" =>
                 /\ n >= 1
                 /\ ~GoesOn(n)
                 /\ iter'.yielded = ItemsOfPages(n)
            /\ (iter.state = "open" /\ n >= 1 /\ ~GoesOn(n)
                  /\ iter.yielded = ItemsOfPages(n)) => iter'.state # "open"
            /\ iter.state = "broken" => iter' = iter
      ]_vars

\* the iterator went through an empty page reporting hasMore after full pages
C25_Witness ==
    /\ iter.state = "done"
    /\ Len(iter.fetches) = 3
    /\ pages[3].len = 0
    /\ pages[3].hasMore
    /\ Len(iter.yielded) = 2 * MaxPageLen

\* a proper or improper start of a sequence
IsPrefix(s, t) == Len(s) <= Len(t) /\ SubSeq(t, 1, Len(s)) = s

\* C30: once createPaginatedIterator has run to its end over the server's
\* pages, TicketsResource.list over the same pages issues no fetch and yields
\* no item the iterator did not, never fails, and ends with the same item
\* sequence and the same page fetches (same count, same cursors).
C30_ListMatchesIterator ==
    iter.state = "done" =>
        /\ IsPrefix(lister.fetches, iter.fetches)
        /\ IsPrefix(lister.yielded, iter.yielded)
        /\ lister.state # "failed"
        /\ lister.state = "done" =>
             /\ lister.fetches = iter.fetches
             /\ lister.yielded = iter.yielded

(***************************************************************************)
(* requestWithRateLimit() next to other calls on the same client.  The     *)
(* only state calls share is _lastRequestId and _lastRateLimit, which each *)
(* call writes when it handles a response (lines 480-481); another call is *)
(* therefore modelled by that write, which may fall between any two steps  *)
(* of this call, every await being a point where other calls run.          *)
(***************************************************************************)
\* the responses the other call may be handling
OtherCallResponses ==
    {WithSessionHeaders(MkResponse(200, "OK", "application/json", JsonObject, NullHeader),
                        "req_other", HeaderValue(<<"5", "0">>),
                        HeaderValue(<<"7">>), HeaderValue(<<"1", "8", "0", "0">>)),
     MkResponse(200, "OK", "text/plain", NoBody, NullHeader)}

\* another call's handleResponse() stores its response's request ID and
\* rate limit info
OtherCallHandlesResponse ==
    /\ pc # "idle"
    /\ withRateLimit = <<>>
    /\ \E r \in OtherCallResponses :
         /\ lastRequestId' = ExtractRequestId(r)
         /\ lastRateLimit' = ExtractRateLimitInfo(r)
    /\ UNCHANGED <<envVars, pageVars, wrapVars, execVars, outVars, pc, attempt,
                   iterations, lastError, headers, delay, caught, response, rejection,
                   signalAborted, fetchLog, trace, caughtLog, sleeps, hookThrows>>

\* requestWithRateLimit(), lines 305-311: after request() has returned, read
\* the two fields and return them with the data
RequestWithRateLimitReturn ==
    /\ pc = "returned"
    /\ withRateLimit = <<>>
    /\ withRateLimit' = <<[data |-> result[1], rateLimit |-> lastRateLimit,
                           requestId |-> lastRequestId]>>
    /\ UNCHANGED <<envVars, pageVars, execVars, sessionVars, outVars, pc, attempt,
                   iterations, lastError, headers, delay, caught, response, rejection,
                   signalAborted, fetchLog, trace, caughtLog, sleeps, hookThrows>>

NextConcurrent ==
    \/ Next
    \/ OtherCallHandlesResponse
    \/ RequestWithRateLimitReturn

SpecConcurrent == InitSession /\ [][NextConcurrent]_vars

\* C26: what requestWithRateLimit returns is the data of a response together
\* with the request ID and the rate limit info of that same response,
\* whatever other calls on the client do meanwhile.
C26_WrapperMatchesItsResponse ==
    withRateLimit # <<>> =>
        /\ withRateLimit[1].data = result[1]
        /\ withRateLimit[1].requestId = ExtractRequestId(response[1])
        /\ withRateLimit[1].rateLimit = ExtractRateLimitInfo(response[1])

\* C27: once the caller's signal is aborted, this request() call starts no
\* further transport invocation: an attempt that begins after the abort fails
\* with a NetworkError before the transport is called, whatever the retry
\* configuration and the number of retries left.
C27_NoFetchAfterAbort ==
    [][ (opts.hasSignal /\ signalAborted) =>
          /\ fetchLog' = fetchLog
          /\ (pc = "exec" /\ pc' # pc) =>
               /\ pc' = "catch"
               /\ InstanceOf(caught'[1], "NetworkError")
      ]_vars

\* two attempts began after the abort and neither reached the transport
C27_Witness ==
    /\ opts.hasSignal
    /\ signalAborted
    /\ attempt = 2
    /\ pc = "catch"
    /\ Len(fetchLog) = 1

\* C28: outside the flight of an attempt no deadline timer is armed and no
\* abort listener is attached, so none is left when request() has ended, and
\* the deadline timer aborts only an attempt that is in flight.
C28_NothingArmedAfterAttempt ==
    [][ /\ pc' \notin {"inflight", "settled"} => (~timerArmed' /\ ~listenerAttached')
        /\ (timerArmed /\ ~timerArmed' /\ pc' = pc) => pc \in {"inflight", "settled"}
        /\ (listenerAttached /\ signalAborted' /\ ~signalAborted) =>
             pc \in {"inflight", "settled"}
      ]_vars

\* the call sleeps before a retry after an attempt that had armed both
C28_Witness ==
    /\ opts.hasSignal
    /\ pc = "sleep"
    /\ Len(fetchLog) = 1
    /\ ~timerArmed
    /\ ~listenerAttached

\* C29: the SDK error handleResponse() produces for a response that is not
\* 2xx carries that response's status in its statusCode field, whatever the
\* error's kind.
C29_StatusCodeIsResponseStatus ==
    [][(/\ pc = "body"
        /\ pc' = "catch"
        /\ ~ResponseOk(response[1])
        /\ InstanceOf(caught'[1], "DispatchTicketsError"))
       => caught'[1].statusCode = response[1].status]_vars

====
